---------------------------- MODULE Spec2Model ----------------------------
(***************************************************************************)
(* Model of the EdgeLink AI service: the RagPipeline of                    *)
(* src/python_ai/rag_pipeline.py (document store adapter and answer        *)
(* orchestrator) and the FastAPI endpoints of src/python_ai/app.py that    *)
(* wrap it.                                                                *)
(*                                                                         *)
(* Python strings are modelled as sequences of one-character strings, so   *)
(* that str.strip(), truthiness and concatenation are computed, not        *)
(* assumed.  Optional[T] is modelled as a sequence of length 0 (None) or 1.*)
(* The endpoints are `async def` functions without any await, so each      *)
(* handler runs to completion on the event loop: one action per handler.   *)
(***************************************************************************)
EXTENDS Integers, Sequences, FiniteSets, TLC

\* ------------------------------------------------------------- bounds
MaxIds == 2
MaxTopK == 2

\* ------------------------------------------------------------- strings
None == <<>>
Some(x) == <<x>>

Digits == <<"1", "2", "3", "4", "5", "6", "7", "8", "9">>

IsSpace(c) == c = " "

RECURSIVE LStrip(_)
LStrip(s) == IF s # <<>> /\ IsSpace(Head(s)) THEN LStrip(Tail(s)) ELSE s

RECURSIVE RStrip(_)
RStrip(s) ==
    IF s # <<>> /\ IsSpace(s[Len(s)]) THEN RStrip(SubSeq(s, 1, Len(s) - 1)) ELSE s

\* str.strip()
Strip(s) == RStrip(LStrip(s))

\* `not text.strip()`
IsBlank(s) == Strip(s) = <<>>

\* truthiness of an Optional[str]: None and "" are falsy
Truthy(opt) == opt # None /\ opt[1] # <<>>

Max(a, b) == IF a >= b THEN a ELSE b

RECURSIVE Count(_, _)
Count(s, c) ==
    IF s = <<>> THEN 0 ELSE (IF Head(s) = c THEN 1 ELSE 0) + Count(Tail(s), c)

\* ------------------------------------------------------------- universes
\* document texts and questions a caller may send
Texts == { <<>>, <<" ">>, <<"a">>, <<"b", " ">> }

\* the uuid4 strings the service can generate
Uuid(n) == <<"u", Digits[n]>>
Ids == { Uuid(n) : n \in 1..MaxIds }

\* document ids a caller may send: generated ones, an unknown one, a blank one
UnknownId == <<"u", "0">>
KnownOrNot == Ids \cup { UnknownId }
RequestIds == KnownOrNot \cup { <<" ">> }

\* a Dict[str, str] over the keys the service reads or writes: each key is
\* absent (None) or carries a string
Keys == {"source", "doc_id"}
ForeignId == <<"x">>
Dict(source, doc_id) == [k \in Keys |-> IF k = "source" THEN source ELSE doc_id]
EmptyDict == Dict(None, None)
Dicts ==
    { EmptyDict,
      Dict(Some(<<>>), None),
      Dict(Some(<<"s">>), None),
      Dict(None, Some(ForeignId)) }

\* Optional[Dict[str, str]]
Metadatas == { None } \cup { Some(d) : d \in Dicts }

\* {**a, **b}: the keys of b override those of a
Merge(a, b) == [k \in Keys |-> IF b[k] # None THEN b[k] ELSE a[k]]

\* {**a, key: value}
With(a, key, value) == [a EXCEPT ![key] = Some(value)]

\* a dict is falsy when it has no key
DictTruthy(d) == \E k \in Keys : d[k] # None

TopKs == (0 - 1)..MaxTopK

\* ------------------------------------------------------------- embedder
\* SentenceTransformer.encode: a deterministic map from a text to a vector.
\* Texts that differ only in whitespace get the same vector.
Embed(text) == << Count(text, "a"), Count(text, "b") >>

\* squared L2 distance, the collection's default metric
Distance(u, v) ==
    (u[1] - v[1]) * (u[1] - v[1]) + (u[2] - v[2]) * (u[2] - v[2])

\* ------------------------------------------------------------- state
VARIABLES
    store,             \* the "documents" collection: id -> None | Some(record)
    issued,            \* the uuid4 values generated so far
    deleted,           \* history: ids removed by a successful delete
    environ,           \* os.environ["ANTHROPIC_API_KEY"]: None | Some(string)
    anthropic_key,     \* RagPipeline._anthropic_key
    anthropic_client,  \* RagPipeline._anthropic_client: None | Some(key used)
    last,              \* the call being answered (Idle when none)
    workflow           \* the run of the example LangGraph workflow (graph.py)

vars ==
    << store, issued, deleted, environ, anthropic_key, anthropic_client, last,
       workflow >>

Record(text, metadata, embedding) ==
    [text |-> text, metadata |-> metadata, embedding |-> embedding]

\* collection.get(ids=[doc_id])["ids"] is non-empty
Has(st, doc_id) == doc_id \in Ids /\ st[doc_id] # None

Live(st) == { i \in Ids : st[i] # None }

\* ------------------------------------------------------------- pipeline
MsgEmptyText == "Document text cannot be empty."
MsgEmptyUpdate == "Updated document text cannot be empty."
MsgEmptyQuery == "Query cannot be empty."
\* f"Document with id '{doc_id}' does not exist."
MsgNotFound == "Document with id ... does not exist."
MsgNoKey == "ANTHROPIC_API_KEY environment variable is not set."
MsgExternal == "raised by a collaborator"

\* what a pipeline method hands back: the exception it raised ("none" when it
\* returned) and the collection after the call
Raised(st, exc, msg) == [exc |-> exc, msg |-> msg, store |-> st]
Returned(st) == [exc |-> "none", msg |-> "", store |-> st]

\* `metadata or {}`
OrEmpty(metadata) ==
    IF metadata # None /\ DictTruthy(metadata[1]) THEN metadata[1] ELSE EmptyDict

\* faulty variant: {"doc_id": doc_id, **metadata}: the caller's doc_id wins
AddMetadataCallerWins(metadata, doc_id) ==
    Merge(With(EmptyDict, "doc_id", doc_id), OrEmpty(metadata))

\* {**metadata, "doc_id": doc_id}
AddMetadata(metadata, doc_id) == With(OrEmpty(metadata), "doc_id", doc_id)

\* faulty variant: only the empty string is refused
AddRejectedEmptyOnly(text) == text = <<>>

\* `not text.strip()` of add_document
AddRejected(text) == IsBlank(text)

\* RagPipeline.add_document, with doc_id the value uuid4 returns when it is
\* reached and used the values it returned before; the result carries the
\* values generated up to the end of the call
AddDocument(st, used, text, metadata, doc_id) ==
    IF AddRejected(text)
    THEN [exc |-> "ValueError", msg |-> MsgEmptyText, store |-> st, issued |-> used]
    ELSE [exc |-> "none", msg |-> "",
          store |-> [st EXCEPT ![doc_id] =
                        Some(Record(text, AddMetadata(metadata, doc_id), Embed(text)))],
          issued |-> used \cup { doc_id }]

\* faulty variant: deleting an id that is not there returns quietly
DeleteDocumentSilent(st, doc_id) ==
    IF ~Has(st, doc_id) THEN Returned(st) ELSE Returned([st EXCEPT ![doc_id] = None])

\* RagPipeline.delete_document
DeleteDocument(st, doc_id) ==
    IF ~Has(st, doc_id)
    THEN Raised(st, "ValueError", MsgNotFound)
    ELSE Returned([st EXCEPT ![doc_id] = None])

\* merged_metadata of update_document
MergedMetadata(current, doc_id, metadata) ==
    LET merged == With(current, "doc_id", doc_id)
    IN  IF metadata # None /\ DictTruthy(metadata[1])
        THEN Merge(merged, metadata[1])
        ELSE merged

\* faulty variant: the embedding is not recomputed
UpdateEmbeddingStale(st, doc_id, text) == st[doc_id][1].embedding

\* the embedding update_document stores with the new text
UpdateEmbedding(st, doc_id, text) == Embed(text)

\* faulty variant: collection.upsert in place of get and update: an id that is not
\* there is created
UpdateDocumentUpsert(st, doc_id, text, metadata) ==
    IF IsBlank(text)
    THEN Raised(st, "ValueError", MsgEmptyUpdate)
    ELSE IF doc_id \notin Ids
    THEN Raised(st, "ValueError", MsgNotFound)
    ELSE LET current == IF Has(st, doc_id) THEN st[doc_id][1].metadata ELSE EmptyDict
         IN  Returned([st EXCEPT ![doc_id] =
                 Some(Record(text,
                             MergedMetadata(current, doc_id, metadata),
                             Embed(text)))])

\* RagPipeline.update_document
UpdateDocument(st, doc_id, text, metadata) ==
    IF IsBlank(text)
    THEN Raised(st, "ValueError", MsgEmptyUpdate)
    ELSE IF ~Has(st, doc_id)
    THEN Raised(st, "ValueError", MsgNotFound)
    ELSE LET current == st[doc_id][1].metadata
         IN  Returned([st EXCEPT ![doc_id] =
                 Some(Record(text,
                             MergedMetadata(current, doc_id, metadata),
                             UpdateEmbedding(st, doc_id, text)))])

\* ------------------------------------------------------------- collaborators
\* a failure of an external collaborator during generate_answer: where it is
\* raised and the class of the exception
NoFault == [site |-> "none", type |-> "none"]
Faults ==
    { NoFault } \cup
    [site : {"encode", "query", "create"}, type : {"ValueError", "Exception"}]

\* what the generation client answers: content blocks, with or without a
\* text attribute
TextBlock(t) == [has_text |-> TRUE, text |-> t]
OtherBlock == [has_text |-> FALSE, text |-> <<>>]
Responses ==
    { <<>>,
      << TextBlock(<<" ", "o">>), OtherBlock, TextBlock(<<"k", " ">>) >> }

Min(a, b) == IF a <= b THEN a ELSE b

Range(f) == { f[i] : i \in DOMAIN f }

\* faulty variant: n_results=top_k, not clamped
NResultsUnclamped(top_k) == top_k

\* n_results of the collection query
NResults(top_k) == Max(1, top_k)

\* faulty variant: the n records farthest from the query come back
QueryResultsFarthest(st, q, n) ==
    LET live == Live(st)
        m == Min(n, Cardinality(live))
        d(i) == Distance(st[i][1].embedding, q)
    IN  { r \in [1..m -> live] :
            /\ \A i, j \in 1..m : i < j => r[i] # r[j] /\ d(r[i]) >= d(r[j])
            /\ \A x \in live \ Range(r) : \A i \in 1..m : d(r[i]) >= d(x) }

\* collection.query(query_embeddings=[q], n_results=n): the possible id
\* columns, up to n records in ascending distance, ties in any order
QueryResults(st, q, n) ==
    LET live == Live(st)
        m == Min(n, Cardinality(live))
        d(i) == Distance(st[i][1].embedding, q)
    IN  { r \in [1..m -> live] :
            /\ \A i, j \in 1..m : i < j => r[i] # r[j] /\ d(r[i]) <= d(r[j])
            /\ \A x \in live \ Range(r) : \A i \in 1..m : d(r[i]) <= d(x) }

\* faulty variant: metadata.get("source", doc_id): an empty source is kept
SourceOfPresent(metadata, doc_id) ==
    IF metadata["source"] # None THEN metadata["source"][1] ELSE doc_id

\* metadata.get("source") or doc_id
SourceOf(metadata, doc_id) ==
    IF Truthy(metadata["source"]) THEN metadata["source"][1] ELSE doc_id

\* the citations built from the aligned result columns
Citations(st, retrieved) ==
    [i \in 1..Len(retrieved) |->
        [source |-> SourceOf(st[retrieved[i]][1].metadata, retrieved[i]),
         text |-> st[retrieved[i]][1].text]]

NoMatch == << "No documents matched the query." >>

\* f"[{index + 1}] Source: {citation['source']}\n{citation['text']}"
ContextBlock(index, citation) ==
    << "[", Digits[index + 1], "] Source: " >> \o citation.source
        \o << "\n" >> \o citation.text

\* faulty variant: no placeholder when nothing was retrieved
ContextBlocksNoPlaceholder(citations) ==
    [i \in 1..Len(citations) |-> ContextBlock(i - 1, citations[i])]

\* context_blocks of generate_answer
ContextBlocks(citations) ==
    IF citations = <<>>
    THEN << NoMatch >>
    ELSE [i \in 1..Len(citations) |-> ContextBlock(i - 1, citations[i])]

\* sep.join(parts)
RECURSIVE Join(_, _)
Join(parts, sep) ==
    IF parts = <<>> THEN <<>>
    ELSE IF Len(parts) = 1 THEN parts[1]
    ELSE parts[1] \o sep \o Join(Tail(parts), sep)

Instructions == << "You are an AI assistant ... state that you do not know.\n\n" >>

Prompt(context, question) ==
    Instructions \o << "Context:\n" >> \o context \o << "\n\nQuestion: " >>
        \o question \o << "\n\nAnswer:" >>

\* "".join(block.text for block in content if hasattr(block, "text")).strip()
RECURSIVE JoinText(_)
JoinText(content) ==
    IF content = <<>> THEN <<>>
    ELSE (IF Head(content).has_text THEN Head(content).text ELSE <<>>)
            \o JoinText(Tail(content))

Answer(content) == Strip(JoinText(content))

\* the credential _ensure_llm looks at
Credential(key, env) == key

\* RagPipeline._ensure_llm: the credential is usable
HasCredential(key, env) == Truthy(Credential(key, env))

\* RagPipeline._ensure_llm: the client after the call
EnsureLlm(key, env, client) ==
    IF client = None THEN Some(Credential(key, env)[1]) ELSE client

\* ------------------------------------------------------------- orchestrator
NoAnswer ==
    [exc |-> "none", msg |-> "", steps |-> <<>>, n_results |-> 0,
     retrieved |-> <<>>, prompt |-> <<>>, content |-> <<>>, answer |-> <<>>,
     citations |-> <<>>, client |-> None]

\* faulty variant: only the empty string is refused
AskRejectedEmptyOnly(question) == question = <<>>

\* `not question.strip()` of generate_answer
AskRejected(question) == IsBlank(question)

\* faulty variant: the credential is checked first, before the question is
\* embedded and the store queried
GenerateAnswerKeyFirst(st, key, env, client, question, top_k, fault, retrieved, content) ==
    LET citations == Citations(st, retrieved)
        start == [NoAnswer EXCEPT !.client = client]
        ensured == [start EXCEPT !.steps = << "_ensure_llm" >>]
        embedded == [ensured EXCEPT !.steps = << "_ensure_llm", "encode" >>]
        queried == [embedded EXCEPT !.steps = << "_ensure_llm", "encode", "query" >>,
                                    !.n_results = NResults(top_k)]
        created == [queried EXCEPT
                       !.steps = << "_ensure_llm", "encode", "query", "assemble",
                                    "create" >>,
                       !.retrieved = retrieved,
                       !.prompt = Prompt(Join(ContextBlocks(citations), << "\n\n" >>),
                                         question),
                       !.client = EnsureLlm(key, env, client)]
    IN  IF AskRejected(question)
        THEN [start EXCEPT !.exc = "ValueError", !.msg = MsgEmptyQuery]
        ELSE IF ~HasCredential(key, env)
        THEN [ensured EXCEPT !.exc = "RuntimeError", !.msg = MsgNoKey]
        ELSE IF fault.site = "encode"
        THEN [embedded EXCEPT !.exc = fault.type, !.msg = MsgExternal]
        ELSE IF fault.site = "query"
        THEN [queried EXCEPT !.exc = fault.type, !.msg = MsgExternal]
        ELSE IF fault.site = "create"
        THEN [created EXCEPT !.exc = fault.type, !.msg = MsgExternal]
        ELSE [created EXCEPT !.content = content, !.answer = Answer(content),
                             !.citations = citations]

\* RagPipeline.generate_answer.  fault is the collaborator failure met on the
\* way (if any), retrieved the id column the collection query returns and
\* content the content blocks of the generation response.
GenerateAnswer(st, key, env, client, question, top_k, fault, retrieved, content) ==
    LET n == NResults(top_k)
        citations == Citations(st, retrieved)
        prompt == Prompt(Join(ContextBlocks(citations), << "\n\n" >>), question)
        start == [NoAnswer EXCEPT !.client = client]
        embedded == [start EXCEPT !.steps = << "encode" >>]
        queried == [embedded EXCEPT !.steps = << "encode", "query" >>,
                                    !.n_results = n]
        assembled == [queried EXCEPT !.steps = << "encode", "query", "assemble" >>,
                                     !.retrieved = retrieved,
                                     !.prompt = prompt]
        ensured == [assembled EXCEPT
                       !.steps = << "encode", "query", "assemble", "_ensure_llm" >>]
        created == [ensured EXCEPT
                       !.steps = << "encode", "query", "assemble", "_ensure_llm",
                                    "create" >>,
                       !.client = EnsureLlm(key, env, client)]
    IN  IF AskRejected(question)
        THEN [start EXCEPT !.exc = "ValueError", !.msg = MsgEmptyQuery]
        ELSE IF fault.site = "encode"
        THEN [embedded EXCEPT !.exc = fault.type, !.msg = MsgExternal]
        ELSE IF fault.site = "query"
        THEN [queried EXCEPT !.exc = fault.type, !.msg = MsgExternal]
        ELSE IF ~HasCredential(key, env)
        THEN [ensured EXCEPT !.exc = "RuntimeError", !.msg = MsgNoKey]
        ELSE IF fault.site = "create"
        THEN [created EXCEPT !.exc = fault.type, !.msg = MsgExternal]
        ELSE [created EXCEPT !.content = content, !.answer = Answer(content),
                             !.citations = citations]

\* the id columns the query of this call can return (none when the call does
\* not get as far as a successful query)
Retrievable(st, question, top_k, fault) ==
    IF AskRejected(question) \/ fault.site \in {"encode", "query"}
    THEN { <<>> }
    ELSE QueryResults(st, Embed(question), NResults(top_k))

\* the responses the generation client can give to this call
Answerable(key, env, question, fault) ==
    IF AskRejected(question) \/ fault # NoFault \/ ~HasCredential(key, env)
    THEN { <<>> }
    ELSE Responses

\* ------------------------------------------------------------- calls
\* The call being answered: who was called (a pipeline helper directly, or an
\* HTTP endpoint), with what, and what came back.  before is the collection
\* and the generated ids as they were when the call started.
Idle ==
    [layer |-> "none", op |-> "none",
     text |-> <<>>, doc_id |-> <<>>, metadata |-> None, top_k |-> None, k |-> 0,
     fault |-> NoFault,
     exc |-> "none", msg |-> "", status |-> 0,
     steps |-> <<>>, n_results |-> 0, retrieved |-> <<>>, prompt |-> <<>>,
     content |-> <<>>, answer |-> <<>>, citations |-> <<>>,
     before |-> [store |-> [i \in Ids |-> None], issued |-> {}]]

Call(layer, op) ==
    [Idle EXCEPT !.layer = layer, !.op = op,
                 !.before = [store |-> store, issued |-> issued]]

\* the answer of the endpoint when the pipeline failed
Fallback == << "Service busy - try again soon!" >>

\* the detail of the endpoints' own HTTP 400 responses
DetailEmptyQuery == "Query cannot be empty"
DetailEmptyText == "Document text cannot be empty"
DetailEmptyId == "Document ID cannot be empty"

\* ---- the example workflow of graph.py

\* str.lower(), on the letters the queries below are written with
Lower(c) ==
    CASE c = "C" -> "c" [] c = "O" -> "o" [] c = "D" -> "d" [] c = "E" -> "e"
      [] OTHER -> c

LowerStr(s) == [i \in DOMAIN s |-> Lower(s[i])]

\* str.startswith(prefix)
StartsWith(s, prefix) ==
    Len(s) >= Len(prefix) /\ SubSeq(s, 1, Len(prefix)) = prefix

\* the queries a run is invoked with; None is a state without "query"
Queries ==
    { None,
      Some(<<>>),
      Some(<< "c", "o", "d", "e" >>),
      Some(<< "C", "o", "d", "e", " ", "x" >>),
      Some(<< "C", "O", "D", "E" >>),
      Some(<< "c", "O", "d", "E", "x" >>),
      Some(<< "c", "o", "d" >>),
      Some(<< "c", "o", "d", "x" >>),
      Some(<< " ", "c", "o", "d", "e" >>),
      Some(<< "x", "c", "o", "d", "e" >>),
      Some(<< "d", "e", "c", "o", "d", "e" >>),
      Some(<< "e", "d", "o", "c" >>),
      Some(<< "x" >>) }

\* state.get("query", "")
QueryOf(state) == IF state.query = None THEN <<>> ELSE state.query[1]

\* classify_intent
ClassifyIntent(state) ==
    [state EXCEPT !.intent =
        Some(IF StartsWith(LowerStr(QueryOf(state)), << "c", "o", "d", "e" >>)
             THEN "task" ELSE "ask")]

\* retrieve
Retrieve(state) == [state EXCEPT !.retrieved = Some(<< "doc1", "doc2" >>)]

\* generate_answer of graph.py
GraphGenerateAnswer(state) ==
    [state EXCEPT !.answer = Some(<< "Answer to: " >> \o QueryOf(state))]

END == "__end__"

\* the edges build_graph adds: all of them unconditional
Edges ==
    { << "classify", "retrieve" >>, << "retrieve", "answer" >>, << "answer", END >> }

\* the node a run goes to after node: the target of node's edge
Successor(node) == (CHOOSE e \in Edges : e[1] = node)[2]

\* the node a run starts at: the first node of the graph
EntryPoint == "classify"

NoRun == [intent |-> None, path |-> <<>>]

\* no run has been invoked.  node is the node to run next, state the state
\* dictionary, path the nodes run so far and previous the intent and path of
\* the run completed before this one
NotInvoked ==
    [node |-> "none",
     state |-> [query |-> None, intent |-> None, retrieved |-> None,
                answer |-> None],
     path |-> <<>>,
     previous |-> NoRun]

Init ==
    /\ store = [i \in Ids |-> None]
    /\ issued = {}
    /\ deleted = {}
    /\ environ \in { None, Some(<<"k">>) }
    /\ anthropic_key = environ
    /\ anthropic_client = None
    /\ last = Idle
    /\ workflow = NotInvoked

\* uuid.uuid4(): a value never generated before
FreshIds(used) == Ids \ used

\* the document id of a call that generated none
NoId == <<>>

\* doc_id is the value uuid4 returned in the call with result r: a fresh one
\* when the call reached uuid4, none when it did not
Drawn(r, used, doc_id) == (doc_id = NoId) <=> (r.issued = used)

\* ---- the module-level helpers of rag_pipeline.py, called directly

AddDocumentCall ==
    /\ last = Idle
    /\ \E text \in Texts, metadata \in Metadatas :
         LET call == [Call("pipeline", "add_document") EXCEPT
                         !.text = text, !.metadata = metadata]
         IN  \E doc_id \in FreshIds(issued) \cup { NoId } :
                  LET r == AddDocument(store, issued, text, metadata, doc_id)
                  IN  /\ Drawn(r, issued, doc_id)
                      /\ store' = r.store
                      /\ issued' = r.issued
                      /\ last' = [call EXCEPT !.exc = r.exc, !.msg = r.msg,
                                              !.doc_id = doc_id]
    /\ UNCHANGED << deleted, environ, anthropic_key, anthropic_client, workflow >>

DeleteDocumentCall ==
    /\ last = Idle
    /\ \E doc_id \in RequestIds :
         LET r == DeleteDocument(store, doc_id)
         IN  /\ store' = r.store
             /\ deleted' = IF r.exc = "none" THEN deleted \cup { doc_id } ELSE deleted
             /\ last' = [Call("pipeline", "delete_document") EXCEPT
                            !.doc_id = doc_id, !.exc = r.exc, !.msg = r.msg]
    /\ UNCHANGED << issued, environ, anthropic_key, anthropic_client, workflow >>

UpdateDocumentCall ==
    /\ last = Idle
    /\ \E doc_id \in KnownOrNot, text \in Texts, metadata \in Metadatas :
         LET r == UpdateDocument(store, doc_id, text, metadata)
         IN  /\ store' = r.store
             /\ last' = [Call("pipeline", "update_document") EXCEPT
                            !.doc_id = doc_id, !.text = text, !.metadata = metadata,
                            !.exc = r.exc, !.msg = r.msg]
    /\ UNCHANGED << issued, deleted, environ, anthropic_key, anthropic_client,
                    workflow >>

\* the fields of a call that generate_answer fills
Answered(call, r) ==
    [call EXCEPT !.exc = r.exc, !.msg = r.msg, !.steps = r.steps,
                 !.n_results = r.n_results, !.retrieved = r.retrieved,
                 !.prompt = r.prompt, !.content = r.content,
                 !.answer = r.answer, !.citations = r.citations]

\* the collaborator failure the call ran into
Met(fault, r) == IF r.msg = MsgExternal THEN fault ELSE NoFault

\* faulty variant: the question is kept in the collection as a new document
GenerateAnswerCallStoring ==
    /\ last = Idle
    /\ \E question \in Texts, top_k \in TopKs, fault \in Faults :
       \E retrieved \in Retrievable(store, question, top_k, fault),
          content \in Answerable(anthropic_key, environ, question, fault),
          doc_id \in FreshIds(issued) :
         LET r == GenerateAnswer(store, anthropic_key, environ, anthropic_client,
                                 question, top_k, fault, retrieved, content)
         IN  /\ anthropic_client' = r.client
             /\ store' = [store EXCEPT ![doc_id] =
                              Some(Record(question, AddMetadata(None, doc_id),
                                          Embed(question)))]
             /\ issued' = issued \cup { doc_id }
             /\ last' = Answered([Call("pipeline", "generate_answer") EXCEPT
                                     !.text = question, !.top_k = Some(top_k),
                                     !.k = top_k, !.fault = Met(fault, r)], r)
    /\ UNCHANGED << deleted, environ, anthropic_key, workflow >>

\* generate_answer(question, top_k)
GenerateAnswerCall ==
    /\ last = Idle
    /\ \E question \in Texts, top_k \in TopKs, fault \in Faults :
       \E retrieved \in Retrievable(store, question, top_k, fault),
          content \in Answerable(anthropic_key, environ, question, fault) :
         LET r == GenerateAnswer(store, anthropic_key, environ, anthropic_client,
                                 question, top_k, fault, retrieved, content)
         IN  /\ anthropic_client' = r.client
             /\ last' = Answered([Call("pipeline", "generate_answer") EXCEPT
                                     !.text = question, !.top_k = Some(top_k),
                                     !.k = top_k, !.fault = Met(fault, r)], r)
    /\ UNCHANGED << store, issued, deleted, environ, anthropic_key, workflow >>

\* add_document followed at once by generate_answer: the caller that has just
\* been returned the id of its new document asks with that document's own
\* text; the call keeps the id of the document it is asking after
SelfQuery ==
    /\ last.op = "add_document" /\ last.exc = "none" /\ last.doc_id # NoId
    /\ \E top_k \in TopKs, fault \in Faults :
       \E retrieved \in Retrievable(store, last.text, top_k, fault),
          content \in Answerable(anthropic_key, environ, last.text, fault) :
         LET r == GenerateAnswer(store, anthropic_key, environ, anthropic_client,
                                 last.text, top_k, fault, retrieved, content)
         IN  /\ anthropic_client' = r.client
             /\ last' = Answered([Call("pipeline", "generate_answer") EXCEPT
                                     !.text = last.text, !.doc_id = last.doc_id,
                                     !.top_k = Some(top_k), !.k = top_k,
                                     !.fault = Met(fault, r)], r)
    /\ UNCHANGED << store, issued, deleted, environ, anthropic_key, workflow >>

\* ---- the endpoints of app.py
\* Every endpoint is an `async def` coroutine that calls the pipeline
\* synchronously and never awaits: once the event loop has started a handler
\* it runs it to its return and starts no other handler meanwhile.

\* `req.top_k or 4`
TopKOrDefault(top_k) == IF top_k = None \/ top_k[1] = 0 THEN 4 ELSE top_k[1]

\* faulty variant: only ValueError is handled: any other exception is an HTTP 500
AskResponseUnhandled(call, r) ==
    IF r.exc = "ValueError"
    THEN [Answered(call, r) EXCEPT !.status = 400]
    ELSE IF r.exc # "none"
    THEN [Answered(call, r) EXCEPT !.status = 500]
    ELSE [Answered(call, r) EXCEPT !.status = 200]

\* the response of ask_endpoint to what generate_answer did
AskResponse(call, r) ==
    IF r.exc = "ValueError"
    THEN [Answered(call, r) EXCEPT !.status = 400]
    ELSE IF r.exc # "none"
    THEN [Answered(call, r) EXCEPT !.status = 200, !.answer = Fallback,
                                   !.citations = <<>>]
    ELSE [Answered(call, r) EXCEPT !.status = 200]

\* POST /ask
AskEndpoint ==
    /\ last = Idle
    /\ \E query \in Texts, top_k \in { None } \cup { Some(n) : n \in TopKs },
          fault \in Faults :
         LET call == [Call("api", "generate_answer") EXCEPT
                         !.text = query, !.top_k = top_k]
             k == TopKOrDefault(top_k)
         IN  IF IsBlank(query)
             THEN /\ last' = [call EXCEPT !.status = 400, !.msg = DetailEmptyQuery]
                  /\ UNCHANGED anthropic_client
             ELSE \E retrieved \in Retrievable(store, query, k, fault),
                     content \in Answerable(anthropic_key, environ, query, fault) :
                  LET r == GenerateAnswer(store, anthropic_key, environ,
                                          anthropic_client, query, k, fault,
                                          retrieved, content)
                  IN  /\ anthropic_client' = r.client
                      /\ last' = AskResponse([call EXCEPT !.k = k,
                                                 !.fault = Met(fault, r)], r)
    /\ UNCHANGED << store, issued, deleted, environ, anthropic_key, workflow >>

\* POST /add_doc
AddDocumentEndpoint ==
    /\ last = Idle
    /\ \E text \in Texts, metadata \in Metadatas :
         LET call == [Call("api", "add_document") EXCEPT
                         !.text = text, !.metadata = metadata]
         IN  IF IsBlank(text)
             THEN /\ last' = [call EXCEPT !.status = 400, !.msg = DetailEmptyText]
                  /\ UNCHANGED << store, issued >>
             ELSE \E doc_id \in FreshIds(issued) \cup { NoId } :
                  LET r == AddDocument(store, issued, text, metadata, doc_id)
                  IN  /\ Drawn(r, issued, doc_id)
                      /\ store' = r.store
                      /\ issued' = r.issued
                      /\ last' = [call EXCEPT
                                     !.exc = r.exc, !.msg = r.msg,
                                     !.doc_id = doc_id,
                                     !.status = IF r.exc = "ValueError"
                                                THEN 400 ELSE 200]
    /\ UNCHANGED << deleted, environ, anthropic_key, anthropic_client, workflow >>

\* DELETE /delete_doc
DeleteDocumentEndpoint ==
    /\ last = Idle
    /\ \E doc_id \in RequestIds :
         LET call == [Call("api", "delete_document") EXCEPT !.doc_id = doc_id]
         IN  IF IsBlank(doc_id)
             THEN /\ last' = [call EXCEPT !.status = 400, !.msg = DetailEmptyId]
                  /\ UNCHANGED << store, deleted >>
             ELSE LET r == DeleteDocument(store, doc_id)
                  IN  /\ store' = r.store
                      /\ deleted' = IF r.exc = "none"
                                    THEN deleted \cup { doc_id } ELSE deleted
                      /\ last' = [call EXCEPT
                                     !.exc = r.exc, !.msg = r.msg,
                                     !.status = IF r.exc = "ValueError"
                                                THEN 404 ELSE 200]
    /\ UNCHANGED << issued, environ, anthropic_key, anthropic_client, workflow >>

\* PUT /update_doc
UpdateDocumentEndpoint ==
    /\ last = Idle
    /\ \E doc_id \in KnownOrNot, text \in Texts, metadata \in Metadatas :
         LET call == [Call("api", "update_document") EXCEPT
                         !.doc_id = doc_id, !.text = text, !.metadata = metadata]
         IN  IF IsBlank(text)
             THEN /\ last' = [call EXCEPT !.status = 400, !.msg = DetailEmptyText]
                  /\ UNCHANGED store
             ELSE LET r == UpdateDocument(store, doc_id, text, metadata)
                  IN  /\ store' = r.store
                      /\ last' = [call EXCEPT
                                     !.exc = r.exc, !.msg = r.msg,
                                     !.status = IF r.exc = "ValueError"
                                                THEN 404 ELSE 200]
    /\ UNCHANGED << issued, deleted, environ, anthropic_key, anthropic_client,
                    workflow >>

\* the handler of POST /ask is inside a slow call of a collaborator and has not
\* answered yet
Pending == last.layer = "api" /\ last.op = "generate_answer" /\ last.status = 0

\* POST /ask with a valid query: the handler runs up to a collaborator call
\* that is slow to return, embedder.encode or messages.create
AskEndpointBlocks ==
    /\ last = Idle
    /\ \E query \in Texts, top_k \in { None } \cup { Some(n) : n \in TopKs } :
         LET k == TopKOrDefault(top_k)
             call == [Call("api", "generate_answer") EXCEPT
                         !.text = query, !.top_k = top_k, !.k = k]
         IN  /\ ~IsBlank(query)
             /\ \/ /\ last' = [call EXCEPT !.steps = << "encode" >>]
                   /\ UNCHANGED anthropic_client
                \/ /\ HasCredential(anthropic_key, environ)
                   /\ \E retrieved \in Retrievable(store, query, k, NoFault) :
                        LET r == GenerateAnswer(store, anthropic_key, environ,
                                                anthropic_client, query, k, NoFault,
                                                retrieved, <<>>)
                        IN  /\ anthropic_client' = r.client
                            /\ last' = [Answered(call, r) EXCEPT
                                           !.answer = <<>>, !.citations = <<>>]
    /\ UNCHANGED << store, issued, deleted, environ, anthropic_key, workflow >>

\* the slow call returns or raises and the handler runs on to its response
AskEndpointResumes ==
    /\ Pending
    /\ \E fault \in Faults :
       \E retrieved \in Retrievable(store, last.text, last.k, fault),
          content \in Answerable(anthropic_key, environ, last.text, fault) :
         LET r == GenerateAnswer(store, anthropic_key, environ, anthropic_client,
                                 last.text, last.k, fault, retrieved, content)
         IN  /\ "create" \in Range(last.steps)
                  => fault.site \in { "none", "create" } /\ retrieved = last.retrieved
             /\ anthropic_client' = r.client
             /\ last' = AskResponse([last EXCEPT !.fault = Met(fault, r)], r)
    /\ UNCHANGED << store, issued, deleted, environ, anthropic_key, workflow >>

\* ---- the environment of the process

\* the credential is set, changed or removed in the process environment
SetEnviron ==
    /\ last = Idle
    /\ \E value \in { None, Some(<<>>), Some(<<"k">>) } :
         /\ value # environ
         /\ environ' = value
    /\ UNCHANGED << store, issued, deleted, anthropic_key, anthropic_client,
                    last, workflow >>

\* the call returns to its caller; the event loop takes the next one
Respond ==
    /\ last # Idle
    /\ ~Pending
    /\ last' = Idle
    /\ UNCHANGED << store, issued, deleted, environ, anthropic_key,
                    anthropic_client, workflow >>

\* the service with the environment it was started in
Next ==
    \/ AddDocumentCall
    \/ DeleteDocumentCall
    \/ UpdateDocumentCall
    \/ GenerateAnswerCall
    \/ AskEndpoint
    \/ AddDocumentEndpoint
    \/ DeleteDocumentEndpoint
    \/ UpdateDocumentEndpoint
    \/ Respond

Spec == Init /\ [][Next]_vars

\* the service in an environment that changes while it runs
NextEnv == Next \/ SetEnviron

SpecEnv == Init /\ [][NextEnv]_vars

\* the HTTP service on its event loop, with collaborator calls that take time
NextLoop ==
    \/ AskEndpoint
    \/ AddDocumentEndpoint
    \/ DeleteDocumentEndpoint
    \/ UpdateDocumentEndpoint
    \/ AskEndpointBlocks
    \/ AskEndpointResumes
    \/ Respond

SpecLoop == Init /\ [][NextLoop]_vars

\* callers that add and delete documents and ask after each document they add
NextSelf ==
    \/ AddDocumentCall
    \/ AddDocumentEndpoint
    \/ DeleteDocumentCall
    \/ SelfQuery
    \/ Respond

SpecSelf == Init /\ [][NextSelf]_vars

\* ---- the runs of the example workflow

\* app.invoke(state) with a state that holds the query, or nothing
Invoke ==
    /\ workflow.node \in { "none", END }
    /\ \E query \in Queries :
         workflow' =
             [node |-> EntryPoint,
              state |-> [NotInvoked.state EXCEPT !.query = query],
              path |-> <<>>,
              previous |-> IF workflow.node = END
                           THEN [intent |-> workflow.state.intent,
                                 path |-> workflow.path]
                           ELSE workflow.previous]
    /\ UNCHANGED << store, issued, deleted, environ, anthropic_key,
                    anthropic_client, last >>

\* the run after node has returned state: it follows node's edge
Ran(node, state) ==
    [workflow EXCEPT !.state = state,
                     !.path = Append(workflow.path, node),
                     !.node = Successor(node)]

ClassifyNode ==
    /\ workflow.node = "classify"
    /\ workflow' = Ran("classify", ClassifyIntent(workflow.state))
    /\ UNCHANGED << store, issued, deleted, environ, anthropic_key,
                    anthropic_client, last >>

RetrieveNode ==
    /\ workflow.node = "retrieve"
    /\ workflow' = Ran("retrieve", Retrieve(workflow.state))
    /\ UNCHANGED << store, issued, deleted, environ, anthropic_key,
                    anthropic_client, last >>

AnswerNode ==
    /\ workflow.node = "answer"
    /\ workflow' = Ran("answer", GraphGenerateAnswer(workflow.state))
    /\ UNCHANGED << store, issued, deleted, environ, anthropic_key,
                    anthropic_client, last >>

\* the runs of the compiled graph, one after the other
NextGraph ==
    \/ Invoke
    \/ ClassifyNode
    \/ RetrieveNode
    \/ AnswerNode

SpecGraph == Init /\ [][NextGraph]_vars

\* ------------------------------------------------------------- properties
\* vocabulary of the properties below

Unchanged == store = last.before.store /\ issued = last.before.issued

\* the call failed with InvalidInput: ValueError with the given text from the
\* helper, HTTP 400 from the endpoint
InvalidInput(msg) ==
    IF last.layer = "api"
    THEN last.status = 400
    ELSE last.exc = "ValueError" /\ last.msg = msg

\* the call failed with NotFound: ValueError "does not exist" from the helper,
\* HTTP 404 from the endpoint
NotFound ==
    IF last.layer = "api"
    THEN last.status = 404
    ELSE last.exc = "ValueError" /\ last.msg = MsgNotFound

\* the call returned normally (HTTP 200 from the endpoint)
Succeeded ==
    /\ last.exc = "none"
    /\ last.status = (IF last.layer = "api" THEN 200 ELSE 0)

\* the id of the call was not in the store when the call started
AbsentBefore == ~Has(last.before.store, last.doc_id)

\* C1: adding a document whose text is empty or whitespace-only fails with
\* InvalidInput (ValueError from add_document, HTTP 400 from POST /add_doc)
\* whatever the metadata, and leaves the store and the generated ids as they
\* were.
C1_BlankAddRejected ==
    (last.op = "add_document" /\ IsBlank(last.text))
        => InvalidInput(MsgEmptyText) /\ Unchanged /\ last.doc_id = NoId

C1_Witness ==
    /\ last.op = "add_document"
    /\ last.layer = "pipeline"
    /\ last.text = << " " >>
    /\ last.metadata = Some(Dict(None, Some(ForeignId)))
    /\ last.exc = "ValueError"
    /\ Live(store) # {}

\* C2 as stated: delete and update of an id that is not in the store always
\* fail with NotFound (HTTP 404), whatever the text and metadata, and leave
\* the store unchanged.
C2_Original ==
    (last.op \in {"delete_document", "update_document"} /\ AbsentBefore)
        => NotFound /\ Unchanged

\* C2 amended: delete and update of an id that is not in the store always
\* fail and leave the store unchanged.  The failure is NotFound (HTTP 404),
\* except that update with an empty or whitespace-only text fails with
\* InvalidInput (HTTP 400) and DELETE /delete_doc with an empty or
\* whitespace-only id answers HTTP 400.
C2_AbsentIdRejected ==
    (last.op \in {"delete_document", "update_document"} /\ AbsentBefore)
        => /\ Unchanged
           /\ IF last.op = "update_document" /\ IsBlank(last.text)
              THEN InvalidInput(MsgEmptyUpdate)
              ELSE IF last.op = "delete_document" /\ last.layer = "api"
                      /\ IsBlank(last.doc_id)
              THEN last.status = 400
              ELSE NotFound

C2_Witness ==
    /\ last.op = "update_document"
    /\ last.layer = "api"
    /\ last.doc_id \in deleted
    /\ ~IsBlank(last.text)
    /\ last.metadata # None
    /\ last.status = 404
    /\ Live(store) # {}

\* C3 as stated: with no generation credential, POST /ask with a non-empty
\* query answers HTTP 500, whatever the store holds and whatever top_k is.
C3_MissingCredentialIs500 ==
    (/\ last.op = "generate_answer"
     /\ last.layer = "api"
     /\ ~IsBlank(last.text)
     /\ ~Truthy(anthropic_key)
     /\ ~Truthy(environ)
     /\ last.fault = NoFault)
        => last.status = 500

C5_BlankQuestionRejected ==
    (last.op = "generate_answer" /\ IsBlank(last.text))
        => InvalidInput(MsgEmptyQuery) /\ last.steps = <<>> /\ Unchanged

C5_Witness ==
    /\ last.op = "generate_answer"
    /\ last.layer = "pipeline"
    /\ last.text = << " " >>
    /\ last.top_k = Some(0 - 1)
    /\ last.exc = "ValueError"
    /\ Live(store) # {}
    /\ Truthy(anthropic_key)

\* C6: once delete(id) has succeeded, the record with that id is never in
\* the store again and no later query result or citation list contains it,
\* whatever adds, updates, deletes and asks follow.
C6_DeletedStaysGone ==
    \A id \in deleted :
        /\ ~Has(store, id)
        /\ id \notin Range(last.retrieved)
        /\ Len(last.citations) <= Len(last.retrieved)

C6_Witness ==
    /\ deleted # {}
    /\ last.op = "generate_answer"
    /\ Succeeded
    /\ last.layer = "api"
    /\ last.citations # <<>>
    /\ Len(last.retrieved) = Cardinality(Ids \ deleted)

\* C7 as stated: after a successful update the doc_id of the stored metadata
\* is the id of the record, whatever metadata the caller gave.
C7_UpdateKeepsDocId ==
    (last.op = "update_document" /\ Succeeded)
        => store[last.doc_id][1].metadata["doc_id"] = Some(last.doc_id)

\* C8: a successful add returns an id that was never generated before and is
\* not in the store, adds exactly one record under that id and changes no
\* other, and the doc_id of the stored metadata is the returned id, also when
\* the caller's metadata has a doc_id of its own.
C8_AddIssuesFreshId ==
    (last.op = "add_document" /\ Succeeded)
        => LET id == last.doc_id
               was == last.before.store
           IN  /\ id \in Ids
               /\ id \notin last.before.issued
               /\ ~Has(was, id)
               /\ Live(store) = Live(was) \cup { id }
               /\ Cardinality(Live(store)) = Cardinality(Live(was)) + 1
               /\ \A other \in Ids \ { id } : store[other] = was[other]
               /\ store[id][1].text = last.text
               /\ store[id][1].metadata["doc_id"] = Some(id)

C8_Witness ==
    /\ last.op = "add_document"
    /\ last.layer = "api"
    /\ last.status = 200
    /\ last.metadata = Some(Dict(None, Some(ForeignId)))
    /\ last.before.issued # {}
    /\ last.before.issued \ Live(last.before.store) # {}

\* C9: in every reachable state the embedding stored with a record is the
\* embedder's vector of the record's current text.
C9_EmbeddingOfCurrentText ==
    \A id \in Live(store) : store[id][1].embedding = Embed(store[id][1].text)

C9_Witness ==
    /\ last.op = "update_document"
    /\ Succeeded
    /\ Embed(last.before.store[last.doc_id][1].text) # Embed(last.text)
    /\ store[last.doc_id][1].embedding = Embed(last.text)

\* C10: whenever generate_answer queries the store, the number of results it
\* asks for is at least 1 and is max(1, top_k) for the top_k it was given,
\* zero and negative values included.
C10_AtLeastOneRequested ==
    (last.op = "generate_answer" /\ "query" \in Range(last.steps))
        => /\ last.n_results >= 1
           /\ last.n_results >= last.k
           /\ last.n_results \in { 1, last.k }

C10_Witness ==
    /\ last.op = "generate_answer"
    /\ last.layer = "pipeline"
    /\ last.k < 0
    /\ "query" \in Range(last.steps)
    /\ last.n_results = 1
    /\ Len(last.retrieved) = 1
    /\ Cardinality(Live(store)) = 2

\* the call is generate_answer asked with the text of the document the same
\* caller has just added, and its store query came back
SelfAsked ==
    /\ last.op = "generate_answer"
    /\ last.doc_id # NoId
    /\ "assemble" \in Range(last.steps)

\* the document just added is in the result set, and in the citations of an
\* answer
SelfReturned ==
    /\ last.doc_id \in Range(last.retrieved)
    /\ last.exc = "none" =>
           \E i \in 1..Len(last.citations) :
               /\ last.retrieved[i] = last.doc_id
               /\ last.citations[i].text = last.text

\* the other records whose embedding is at distance 0 from the question's
SelfTies ==
    { i \in Live(store) \ { last.doc_id } :
          Distance(store[i][1].embedding, Embed(last.text)) = 0 }

\* C11 as stated: a query with the text of the document just added returns
\* that document, for every top_k >= 1 and whatever else is stored, records
\* with the same text included.
C11_Original == (SelfAsked /\ last.k >= 1) => SelfReturned

\* C11: a query with the text of the document just added returns that
\* document, in the result set and in the citations, whenever fewer than
\* top_k (>= 1) other records are at distance 0 from the question.
C11_SelfQueryReturnsAdded ==
    (SelfAsked /\ last.k >= 1 /\ Cardinality(SelfTies) < last.k) => SelfReturned

C11_Witness ==
    /\ SelfAsked
    /\ last.k = 2
    /\ last.exc = "none"
    /\ Cardinality(SelfTies) = 1
    /\ Len(last.retrieved) = 2
    /\ SelfReturned

\* C12: the credential is read from the process environment at call time: a
\* generate_answer call that gets as far as the credential check fails for a
\* missing credential exactly when the environment holds none (or an empty
\* one) while the call is made, whatever it held when the process started.
C12_CredentialReadAtCall ==
    (last.op = "generate_answer" /\ "_ensure_llm" \in Range(last.steps))
        => ((last.exc = "RuntimeError" /\ last.msg = MsgNoKey) <=> ~Truthy(environ))

\* C13: a slow embedding or generation call blocks only the request that made
\* it: while the call is pending, another inbound request (POST /ask,
\* POST /add_doc, DELETE /delete_doc or PUT /update_doc) can be handled.
C13_OthersProceed ==
    Pending => ENABLED (\/ AskEndpoint
                        \/ AddDocumentEndpoint
                        \/ DeleteDocumentEndpoint
                        \/ UpdateDocumentEndpoint)

\* the store query of a generate_answer call returned no document
ZeroDocuments ==
    /\ last.op = "generate_answer"
    /\ "assemble" \in Range(last.steps)
    /\ last.retrieved = <<>>

\* C14: when the store query returns no document, the prompt is built from
\* the one placeholder context "No documents matched the query.", the
\* generation client is still called (the credential being there), and the
\* call returns the model's text with an empty citation sequence.
C14_NoDocumentsPlaceholder ==
    ZeroDocuments =>
        /\ last.prompt = Instructions
                \o << "Context:\n", "No documents matched the query.",
                      "\n\nQuestion: " >>
                \o last.text \o << "\n\nAnswer:" >>
        /\ last.msg # MsgNoKey => "create" \in Range(last.steps)
        /\ last.exc = "none" =>
               /\ last.answer = Strip(JoinText(last.content))
               /\ last.citations = <<>>

C14_Witness ==
    /\ ZeroDocuments
    /\ last.exc = "none"
    /\ "create" \in Range(last.steps)
    /\ last.content # <<>>
    /\ last.answer = << "o", "k" >>
    /\ last.citations = <<>>

\* the source the i-th citation is to name: the 'source' of the i-th retrieved
\* record's metadata when there is one and it is not empty, else the record's id
ExpectedSource(i) ==
    LET md == store[last.retrieved[i]][1].metadata
    IN  IF md["source"] # None /\ md["source"][1] # <<>>
        THEN md["source"][1]
        ELSE last.retrieved[i]

\* the context block of the i-th retrieved record, numbered from 1
ExpectedBlock(i) ==
    << "[", Digits[i], "] Source: " >> \o ExpectedSource(i) \o << "\n" >>
        \o store[last.retrieved[i]][1].text

\* C15: a successful generate_answer returns one citation per retrieved
\* record, in the order of the store's result: at most max(1, top_k) and at
\* most as many as there are records, the i-th with the i-th record's current
\* text and with its metadata 'source' when present and non-empty, else its
\* id; the prompt's context block i is numbered i, from 1.
C15_CitationsFollowResults ==
    (last.op = "generate_answer" /\ Succeeded) =>
        LET n == Len(last.retrieved)
        IN  /\ Len(last.citations) = n
            /\ n <= Max(1, last.k)
            /\ n <= Cardinality(Live(store))
            /\ \A i \in 1..n :
                   /\ last.citations[i].text = store[last.retrieved[i]][1].text
                   /\ last.citations[i].source = ExpectedSource(i)
            /\ n > 0 =>
                   last.prompt = Instructions \o << "Context:\n" >>
                       \o Join([i \in 1..n |-> ExpectedBlock(i)], << "\n\n" >>)
                       \o << "\n\nQuestion: " >> \o last.text
                       \o << "\n\nAnswer:" >>

C15_Witness ==
    /\ last.op = "generate_answer"
    /\ Succeeded
    /\ Len(last.citations) = 2
    /\ store[last.retrieved[1]][1].metadata["source"] = Some(<<>>)
    /\ last.citations[1].source = last.retrieved[1]
    /\ store[last.retrieved[2]][1].metadata["source"] = Some(<< "s" >>)
    /\ last.citations[2].source = << "s" >>

\* the call's metadata provides the key
Provided(key) == last.metadata # None /\ last.metadata[1][key] # None

\* C16: a successful update changes only the record with the given id: the
\* same ids are stored, every other record is as it was, every metadata key
\* of the target that is not provided keeps its previous value and every
\* provided key takes the provided value.
C16_UpdateChangesOnlyTarget ==
    (last.op = "update_document" /\ Succeeded) =>
        LET old == last.before.store
            id == last.doc_id
        IN  /\ Live(store) = Live(old)
            /\ \A other \in Ids \ { id } : store[other] = old[other]
            /\ \A key \in Keys :
                   store[id][1].metadata[key] =
                       IF Provided(key) THEN last.metadata[1][key]
                       ELSE old[id][1].metadata[key]

\* the steps of generate_answer after its input validation, in order
StepOrder == << "encode", "query", "assemble", "_ensure_llm", "create" >>

\* C17: a generate_answer call that passes the input validation embeds the
\* question, queries the store, assembles the prompt, checks the credential
\* and calls the generation client, in this order and each at most once, up
\* to the step that fails; a failed generation call is the last step, made
\* once; a missing credential is reported only after the store was queried,
\* and then no generation call is made.
C17_StepsInOrderOnce ==
    (last.op = "generate_answer" /\ ~IsBlank(last.text)) =>
        /\ \E n \in 1..Len(StepOrder) : last.steps = SubSeq(StepOrder, 1, n)
        /\ last.fault.site = "create" =>
               /\ last.steps[Len(last.steps)] = "create"
               /\ Cardinality({ i \in DOMAIN last.steps : last.steps[i] = "create" }) = 1
        /\ (last.exc = "RuntimeError" /\ last.msg = MsgNoKey) =>
               /\ "query" \in Range(last.steps)
               /\ "create" \notin Range(last.steps)
        /\ last.exc = "none" => last.steps = StepOrder

C17_Witness ==
    /\ last.op = "generate_answer"
    /\ last.exc = "RuntimeError"
    /\ last.msg = MsgNoKey
    /\ last.steps = << "encode", "query", "assemble", "_ensure_llm" >>
    /\ last.retrieved # <<>>

\* C18: generate_answer and POST /ask never change the store: whatever the
\* question, top_k and outcome, the records with their text, metadata and
\* embedding are after the call what they were before it.
C18_AskLeavesStore ==
    last.op = "generate_answer" => store = last.before.store

C18_Witness ==
    /\ last.op = "generate_answer"
    /\ last.exc = "none"
    /\ last.citations # <<>>
    /\ Cardinality(Live(store)) = 2
    /\ store = last.before.store

\* the query starts with "code", whatever the case of its letters
StartsWithCode(q) ==
    /\ Len(q) >= 4
    /\ q[1] \in { "c", "C" } /\ q[2] \in { "o", "O" }
    /\ q[3] \in { "d", "D" } /\ q[4] \in { "e", "E" }

\* the intent of a run is 'task' exactly when its query starts with "code"
IntentClassified ==
    workflow.state.intent # None =>
        workflow.state.intent =
            Some(IF StartsWithCode(QueryOf(workflow.state)) THEN "task" ELSE "ask")

\* a run that has reached END has an answer
EndsWithAnswer == workflow.node = END => workflow.state.answer # None

\* two runs classified with different intents went through different nodes
RoutedByIntent ==
    (/\ workflow.node = END
     /\ workflow.previous.intent # None
     /\ workflow.previous.intent # workflow.state.intent)
        => workflow.path # workflow.previous.path

\* C19: the workflow routes a request to different nodes according to its
\* classified intent ('task' exactly when the query starts with "code" in
\* any case, else 'ask'), and a run that reaches END has an answer.
C19_RoutesByIntent == RoutedByIntent /\ IntentClassified /\ EndsWithAnswer

==========================================================================
